---- MODULE Spec2Model ----
(***************************************************************************)
(* Incident Autopilot: the incident pipeline (core/pipeline.py), the       *)
(* approval endpoint (api.py), the incident store (core/state.py), the     *)
(* guardrail engine (core/guardrails.py), the mitigation selector          *)
(* (agents/executor.py) and the recovery check (agents/postcheck.py).      *)
(*                                                                         *)
(* Numbers: percentages and milliseconds are integers; error_rate is kept  *)
(* in hundredths of a percent (0.2% is 20), so that the comparisons of the   *)
(* code are exact.  Texts (root cause, runbooks) are kept as the set of    *)
(* the keywords the code searches for that occur in them.  Service names   *)
(* are sequences of characters.                                            *)
(***************************************************************************)
EXTENDS Integers, Sequences, FiniteSets, TLC

\* ---------------------------------------------------------------- bounds
MaxTime == 2
MaxApprovals == 2

\* ------------------------------------------------------------- utilities
None == [none |-> TRUE]

\* an unset time (end_time is None)
NoTime == -1

\* no incident object
NoObj == "none"

EmptyDict == [k \in {} |-> 0]

Get(d, k, default) == IF k \in DOMAIN d THEN d[k] ELSE default

Min(a, b) == IF a <= b THEN a ELSE b

Max(a, b) == IF a >= b THEN a ELSE b

\* str.lower() on the characters service names are written with
Lower(c) ==
  CASE c = "P" -> "p"
    [] c = "R" -> "r"
    [] c = "O" -> "o"
    [] c = "D" -> "d"
    [] OTHER -> c

LowerStr(s) == [i \in 1..Len(s) |-> Lower(s[i])]

\* Python's  sub in s  on character sequences
Contains(s, sub) ==
  \E i \in 0..(Len(s) - Len(sub)) :
     \A j \in 1..Len(sub) : s[i + j] = sub[j]

\* ------------------------------------------------------------ core/models
AgentStage ==
  {"detection", "scout", "triage", "hypothesis", "experiment",
   "executor", "postcheck", "completed", "failed"}

IncidentType ==
  {"latency_spike", "error_rate_increase", "resource_saturation",
   "queue_depth_growth", "unknown"}

IncidentMetrics ==
  [detection_latency_seconds |-> 0, triage_accuracy |-> 0,
   time_to_mitigation_seconds |-> 0, mitigation_success |-> FALSE]

\* Incident(...) as the simulator constructs it; every other field has the
\* default of the pydantic model
Incident(id, service_name, severity, detection_event) ==
  [id |-> id, service_name |-> service_name, end_time |-> NoTime,
   stage |-> "detection", severity |-> severity, incident_type |-> "unknown",
   evidence |-> None, hypotheses |-> << >>, experiments |-> << >>,
   proposed_mitigation |-> None, applied_mitigation |-> None,
   mitigation_approved |-> FALSE, metrics_recovered |-> FALSE,
   incident_summary |-> "",
   metrics |-> IncidentMetrics,
   timeline |-> << detection_event >>]

\* one timeline entry (the timestamp is not kept)
Event(stage, message, data) == [stage |-> stage, message |-> message, data |-> data]

\* an add_timeline_event that rewrites the log instead of appending to it
add_timeline_event_rewriting(inc, stage, message, data) ==
  [inc EXCEPT !.timeline = << Event(stage, message, data) >>]

add_timeline_event(inc, stage, message, data) ==
  [inc EXCEPT !.timeline = Append(@, Event(stage, message, data))]

\* -------------------------------------------------------- core/guardrails
_default_config ==
  [max_scale_replicas |-> 10, max_scale_factor |-> 3,
   require_approval_for |-> {"rollback", "scale_down", "restart_service"},
   allow_auto_mitigation |-> FALSE,
   production_requires_approval |-> TRUE]

GuardrailCheck(passed, policy_violated) ==
  [passed |-> passed, policy_violated |-> policy_violated]

\* a reversibility check that lets every mitigation through
not_reversible_unchecked(mitigation) == FALSE

\* Check 1 (line 37)
not_reversible(mitigation) == ~mitigation.reversible

\* a scale limit that the limit itself exceeds
exceeds_scale_limit_inclusive(cfg, mitigation) ==
  /\ mitigation.type = "scale_up"
  /\ Get(mitigation.parameters, "target_replicas", 0) >= cfg.max_scale_replicas

\* Check 3 (lines 49-51)
exceeds_scale_limit(cfg, mitigation) ==
  /\ mitigation.type = "scale_up"
  /\ Get(mitigation.parameters, "target_replicas", 0) > cfg.max_scale_replicas

\* a production test that looks at the name as it is written
is_production_case_sensitive(service_name) ==
  \/ Contains(service_name, <<"p","r","o","d","u","c","t","i","o","n">>)
  \/ Contains(service_name, <<"p","r","o","d">>)

\* Check 4 (line 60)
is_production(service_name) ==
  LET lower == LowerStr(service_name)
  IN \/ Contains(lower, <<"p","r","o","d","u","c","t","i","o","n">>)
     \/ Contains(lower, <<"p","r","o","d">>)

\* a bypass that waives the approval of a critical incident
critical_bypass_waives_approval(severity, mitigation) ==
  IF severity = "critical"
  THEN [mitigation EXCEPT !.requires_approval = FALSE]
  ELSE mitigation

\* Check 5 (lines 64-66): the branch for a critical incident is empty
critical_bypass(severity, mitigation) ==
  IF severity = "critical" THEN mitigation ELSE mitigation

\* an assignment that flips the flag instead of setting it
require_approval_toggling(mitigation) ==
  [mitigation EXCEPT !.requires_approval = ~mitigation.requires_approval]

\* mitigation.requires_approval = True  (lines 47 and 62)
require_approval(mitigation) ==
  [mitigation EXCEPT !.requires_approval = TRUE]

\* check_mitigation returns the check and the mitigation as it has left it
\* (requires_approval is set on the object passed in)
check_mitigation(cfg, mitigation, severity, service_name) ==
  IF not_reversible(mitigation)
  THEN [check |-> GuardrailCheck(FALSE, "reversibility_required"),
        mitigation |-> mitigation]
  ELSE
    LET m2 == IF mitigation.type \in cfg.require_approval_for
                 /\ ~cfg.allow_auto_mitigation
              THEN require_approval(mitigation)
              ELSE mitigation
    IN IF exceeds_scale_limit(cfg, m2)
       THEN [check |-> GuardrailCheck(FALSE, "max_scale_replicas"),
             mitigation |-> m2]
       ELSE
         LET m4 == IF is_production(service_name)
                      /\ cfg.production_requires_approval
                   THEN require_approval(m2)
                   ELSE m2
         IN [check |-> GuardrailCheck(TRUE, "none"),
             mitigation |-> critical_bypass(severity, m4)]

\* -------------------------------------------------------- agents/executor
\* Mitigation(...): parameters keeps the entries the program reads back or
\* that identify the action
\* a restart that is not marked reversible
Mitigation_with_irreversible_restart(type, parameters, risk_level) ==
  [type |-> type, parameters |-> parameters,
   reversible |-> type # "restart_service",
   risk_level |-> risk_level, requires_approval |-> FALSE]

Mitigation(type, parameters, risk_level) ==
  [type |-> type, parameters |-> parameters, reversible |-> TRUE,
   risk_level |-> risk_level, requires_approval |-> FALSE]

_mentions_deploy(text) ==
  text \cap {"deploy", "deployment", "rollout", "release"} # {}

\* a previous version that falls back to the current one
_current_and_previous_versions_reusing_current(deploys) ==
  [current_v |-> IF Len(deploys) > 0 THEN Get(deploys[1], "version", "unknown")
                 ELSE "unknown",
   prev_v |-> IF Len(deploys) > 1 THEN Get(deploys[2], "version", "null")
              ELSE IF Len(deploys) > 0 THEN Get(deploys[1], "version", "unknown")
              ELSE "null"]

\* deploys[0] is the most recent, deploys[1] the previous one; "null" is None
_current_and_previous_versions(deploys) ==
  [current_v |-> IF Len(deploys) > 0 THEN Get(deploys[1], "version", "unknown")
                 ELSE "unknown",
   prev_v |-> IF Len(deploys) > 1 THEN Get(deploys[2], "version", "null")
              ELSE "null"]

\* an error pressure that sets the bump instead of raising it
error_bump_overwrites(bump, err) == IF err > 500 THEN 2 ELSE bump

\* Error pressure (lines 271-273); 500 is 5 percent
error_bump(bump, err) == IF err > 500 THEN Max(bump, 2) ELSE bump

_compute_scale_target(cfg, metrics, current_replicas, default_bump) ==
  LET cpu == Get(metrics, "cpu_usage", 0)
      mem == Get(metrics, "memory_usage", 0)
      lat == Get(metrics, "latency_p99", 0)
      q == Get(metrics, "queue_depth", 0)
      err == Get(metrics, "error_rate", 0)
      b1 == IF cpu > 90 \/ mem > 90 THEN Max(default_bump, 3)
            ELSE IF cpu > 85 \/ mem > 85 THEN Max(default_bump, 2)
            ELSE default_bump
      b2 == IF lat > 3000 THEN Max(b1, 3)
            ELSE IF lat > 2000 THEN Max(b1, 2)
            ELSE b1
      b3 == IF q > 2000 THEN Max(b2, 3)
            ELSE IF q > 1000 THEN Max(b2, 2)
            ELSE b2
      bump == error_bump(b3, err)
      t1 == Min(current_replicas + bump, cfg.max_scale_replicas)
      t2 == IF current_replicas > 0
            THEN Min(t1, current_replicas * cfg.max_scale_factor)
            ELSE t1
  IN Max(t2, current_replicas + 1)

_scale_signal(metrics) ==
  LET cpu == Get(metrics, "cpu_usage", 0)
      mem == Get(metrics, "memory_usage", 0)
      lat == Get(metrics, "latency_p99", 0)
      q == Get(metrics, "queue_depth", 0)
  IN IF cpu > 85 \/ mem > 85 THEN "resource_saturation"
     ELSE IF q > 1000 THEN "queue_pressure"
     ELSE IF lat > 1500 THEN "latency_pressure"
     ELSE "mixed_signals"

\* feature_flags of the service state is the sequence of flag names, in
\* dictionary order
_choose_feature_flag(service_state, rb_text) ==
  LET flags == Get(service_state, "feature_flags", << >>)
  IN IF rb_text \cap {"cache", "redis"} # {}
     THEN [feature |-> "cache-integration", fallback |-> "direct-db-access"]
     ELSE IF Len(flags) > 0
     THEN [feature |-> flags[1], fallback |-> "safe-fallback"]
     ELSE [feature |-> "noncritical-feature", fallback |-> "safe-fallback"]

\* an if-chain that tries the scale-up of rule 2 before the rollback
first_match_scale_before_rollback(rule1, rule2, rule3, rule4) ==
  IF rule2 THEN 2
  ELSE IF rule1 THEN 1
  ELSE IF rule3 THEN 3
  ELSE IF rule4 THEN 4
  ELSE 5

\* the if-chain of _propose_mitigation: the number of the first rule that
\* returns (lines 113, 138, 155, 173), 5 for the default of line 195
first_match(rule1, rule2, rule3, rule4) ==
  IF rule1 THEN 1
  ELSE IF rule2 THEN 2
  ELSE IF rule3 THEN 3
  ELSE IF rule4 THEN 4
  ELSE 5

\* root_cause and rb_text are the sets of searched keywords that occur in
\* the lower-cased text; evidence is None or the Evidence record
_propose_mitigation(cfg, incident_type, root_cause, evidence, service_state, rb_text) ==
  LET metrics == IF evidence = None THEN EmptyDict ELSE evidence.metrics
      deploys == IF evidence = None THEN << >> ELSE evidence.recent_deploys
      current_replicas == Get(service_state, "replicas", 3)
      env == Get(service_state, "environment", "demo")
      prefer_rollback == rb_text \cap {"rollback", "roll back"} # {}
      prefer_scale == rb_text \cap {"scale", "replica", "autoscal"} # {}
      prefer_disable == rb_text \cap {"feature flag", "disable", "degrade"} # {}
      versions == _current_and_previous_versions(deploys)
      rule1 == (_mentions_deploy(root_cause) \/ (prefer_rollback /\ Len(deploys) > 0))
               /\ versions.prev_v # "null"
      rule2 == incident_type = "resource_saturation"
               \/ "resource" \in root_cause \/ "memory" \in root_cause
               \/ prefer_scale
      rule3 == "dependency" \in root_cause \/ "downstream" \in root_cause
               \/ prefer_disable
      rule4 == incident_type = "error_rate_increase"
      rule == first_match(rule1, rule2, rule3, rule4)
  IN IF rule = 1
     THEN LET m == Mitigation("rollback",
                     [current_version |-> versions.current_v,
                      target_version |-> versions.prev_v], "medium")
          IN IF env \in {"prod", "production"}
             THEN [m EXCEPT !.requires_approval = TRUE]
             ELSE m
     ELSE IF rule = 2
     THEN Mitigation("scale_up",
            [current_replicas |-> current_replicas,
             target_replicas |-> _compute_scale_target(cfg, metrics, current_replicas, 2),
             signal |-> _scale_signal(metrics)], "low")
     ELSE IF rule = 3
     THEN LET ff == _choose_feature_flag(service_state, rb_text)
          IN Mitigation("feature_flag_disable",
               [feature |-> ff.feature, fallback |-> ff.fallback], "low")
     ELSE IF rule = 4
     THEN Mitigation("restart_service",
            [strategy |-> Get(service_state, "restart_strategy", "rolling"),
             max_unavailable |-> Get(service_state, "max_unavailable", 1)], "medium")
     ELSE Mitigation("scale_up",
            [current_replicas |-> current_replicas,
             target_replicas |-> _compute_scale_target(cfg, metrics, current_replicas, 1),
             signal |-> "conservative_default"], "low")

\* ExecutorAgent.apply_mitigation: the simulated apply always reports success
apply_mitigation(mitigation, service_name, at) ==
  [success |-> TRUE, mitigation_type |-> mitigation.type, applied_at |-> at]

\* ------------------------------------------------------- agents/postcheck
\* a resource threshold that lets 80 pass
usage_ok_inclusive(usage) == usage <= 80

\* cpu_ok and memory_ok (lines 69 and 78)
usage_ok(usage) == usage < 80

\* baseline and current are dictionaries; the defaults of a missing baseline
\* key are 200 ms and 0.1% (10)
_check_recovery(baseline, current) ==
  LET latency_ok == 10 * Get(current, "latency_p99", 0)
                      <= 12 * Get(baseline, "latency_p99", 200)
      errors_ok == Get(current, "error_rate", 0)
                      <= 2 * Get(baseline, "error_rate", 10)
      cpu_ok == usage_ok(Get(current, "cpu_usage", 0))
      memory_ok == usage_ok(Get(current, "memory_usage", 0))
      checks == [k \in DOMAIN current \cap
                       {"latency_p99", "error_rate", "cpu_usage", "memory_usage"} |->
                   CASE k = "latency_p99" -> latency_ok
                     [] k = "error_rate" -> errors_ok
                     [] k = "cpu_usage" -> cpu_ok
                     [] k = "memory_usage" -> memory_ok]
  IN [recovered |-> \A k \in DOMAIN checks : checks[k], checks |-> checks]

\* ---------------------------------------------------------- core/pipeline
_simulate_recovery(current_metrics) ==
  [latency_p50 |-> 150, latency_p95 |-> 250, latency_p99 |-> 400,
   error_rate |-> 20, cpu_usage |-> 45, memory_usage |-> 60,
   request_rate |-> Get(current_metrics, "request_rate", 100),
   queue_depth |-> 50]

\* ------------------------------------------------------ agents/experiment
\* a hypothesis description is the set of searched keywords it contains; a
\* log line likewise
_run_experiment(idx, hypothesis, evidence) ==
  LET d == hypothesis.description
      redis_errors == \E i \in 1..Len(evidence.logs) :
                         /\ "ERROR" \in evidence.logs[i]
                         /\ evidence.logs[i] \cap {"redis-cache", "refused"} # {}
      db_errors == \E i \in 1..Len(evidence.logs) :
                         evidence.logs[i] \cap {"database", "timeout"} # {}
  IN IF "deployment" \in d /\ Len(evidence.recent_deploys) > 0
     THEN [hypothesis_id |-> idx, validated |-> TRUE, findings |-> "deployment", confidence |-> 85]
     ELSE IF d \cap {"dependency", "downstream"} # {} /\ redis_errors
     THEN [hypothesis_id |-> idx, validated |-> TRUE, findings |-> "redis-cache", confidence |-> 90]
     ELSE IF d \cap {"resource", "memory"} # {}
             /\ Get(evidence.metrics, "memory_usage", 0) > 80
     THEN [hypothesis_id |-> idx, validated |-> TRUE, findings |-> "memory", confidence |-> 80]
     ELSE IF "database" \in d /\ db_errors
     THEN [hypothesis_id |-> idx, validated |-> TRUE, findings |-> "database", confidence |-> 75]
     ELSE [hypothesis_id |-> idx, validated |-> FALSE, findings |-> "none", confidence |-> 30]

\* ExperimentAgent.execute: one result per hypothesis and the best of them
\* (max() keeps the first of equal confidences)
\* an enumeration that counts the hypotheses from one
experiment_execute_counting_from_one(hypotheses, evidence) ==
  LET results == [i \in 1..Len(hypotheses) |->
                     _run_experiment(i, hypotheses[i], evidence)]
      validated == {i \in 1..Len(results) : results[i].validated}
      best == IF validated # {}
              THEN CHOOSE i \in validated :
                     \A j \in validated :
                        \/ results[j].confidence < results[i].confidence
                        \/ (results[j].confidence = results[i].confidence /\ i <= j)
              ELSE 1
  IN [experiment_results |-> results, most_likely_cause |-> results[best]]

experiment_execute(hypotheses, evidence) ==
  LET results == [i \in 1..Len(hypotheses) |->
                     _run_experiment(i - 1, hypotheses[i], evidence)]
      validated == {i \in 1..Len(results) : results[i].validated}
      best == IF validated # {}
              THEN CHOOSE i \in validated :
                     \A j \in validated :
                        \/ results[j].confidence < results[i].confidence
                        \/ (results[j].confidence = results[i].confidence /\ i <= j)
              ELSE 1
  IN [experiment_results |-> results, most_likely_cause |-> results[best]]

\* a test of the guardrail result that never blocks
guardrail_blocks_never(check) == FALSE

\* if not guardrail_check.passed  (line 52)
guardrail_blocks(check) == ~check.passed

\* ExecutorAgent.execute: the hypothesis the experiment points at (else the
\* first), the proposal, the guardrail check
executor_execute(cfg, inc, context) ==
  LET hypotheses == Get(context, "hypotheses", << >>)
      has_most_likely == "most_likely_cause" \in DOMAIN context
      hid == IF has_most_likely THEN context["most_likely_cause"].hypothesis_id ELSE -1
      root_cause == IF has_most_likely /\ Len(hypotheses) > 0
                       /\ 0 <= hid /\ hid < Len(hypotheses)
                    THEN hypotheses[hid + 1].description
                    ELSE IF Len(hypotheses) > 0 THEN hypotheses[1].description
                    ELSE {}
      evidence == IF "evidence" \in DOMAIN context THEN context["evidence"] ELSE None
      mitigation == _propose_mitigation(cfg, inc.incident_type, root_cause, evidence,
                                        Get(context, "service_state", EmptyDict),
                                        Get(context, "runbooks", {}))
      gc == check_mitigation(cfg, mitigation, inc.severity, inc.service_name)
  IN IF guardrail_blocks(gc.check)
     THEN [status |-> "blocked", mitigation |-> None,
           reason |-> gc.check.policy_violated]
     ELSE [status |-> "proposed", mitigation |-> gc.mitigation, reason |-> "none"]

\* ------------------------------------------------------------ agents/scout
_gather_metrics(metrics) ==
  [k \in {"latency_p50", "latency_p95", "latency_p99", "error_rate",
          "cpu_usage", "memory_usage", "request_rate", "queue_depth"} |->
     Get(metrics, k, 0)]

_check_recent_deploys == << [version |-> "v1.2.3", commit |-> "abc123f"] >>

\* --------------------------------------------------- simulator/scenarios
\* the four scenarios of the simulator: severity, baseline and current
\* metrics, detection message
baseline_latency_spike ==
  [latency_p50 |-> 150, latency_p95 |-> 300, latency_p99 |-> 500, error_rate |-> 10,
   cpu_usage |-> 45, memory_usage |-> 60, request_rate |-> 100, queue_depth |-> 50]

baseline_error_rate ==
  [latency_p50 |-> 120, latency_p95 |-> 250, latency_p99 |-> 400, error_rate |-> 10,
   cpu_usage |-> 40, memory_usage |-> 55, request_rate |-> 150, queue_depth |-> 30]

baseline_resource_saturation ==
  [latency_p50 |-> 100, latency_p95 |-> 200, latency_p99 |-> 350, error_rate |-> 5,
   cpu_usage |-> 50, memory_usage |-> 60, request_rate |-> 200, queue_depth |-> 100]

baseline_queue_depth ==
  [latency_p50 |-> 80, latency_p95 |-> 150, latency_p99 |-> 250, error_rate |-> 2,
   cpu_usage |-> 35, memory_usage |-> 50, request_rate |-> 80, queue_depth |-> 200]

scenario_latency_spike ==
  [severity |-> "high", baseline |-> baseline_latency_spike,
   current |-> [baseline_latency_spike EXCEPT !.latency_p50 = 800, !.latency_p95 = 2500,
                  !.latency_p99 = 5000, !.error_rate = 120, !.cpu_usage = 55],
   detected |-> "Latency spike detected"]

scenario_error_rate ==
  [severity |-> "critical", baseline |-> baseline_error_rate,
   current |-> [baseline_error_rate EXCEPT !.error_rate = 1580, !.latency_p99 = 800,
                  !.request_rate = 140],
   detected |-> "Error rate spike detected"]

scenario_resource_saturation ==
  [severity |-> "high", baseline |-> baseline_resource_saturation,
   current |-> [baseline_resource_saturation EXCEPT !.cpu_usage = 92, !.memory_usage = 89,
                  !.latency_p99 = 3000, !.error_rate = 250],
   detected |-> "Resource saturation"]

scenario_queue_depth ==
  [severity |-> "medium", baseline |-> baseline_queue_depth,
   current |-> [baseline_queue_depth EXCEPT !.queue_depth = 15000, !.cpu_usage = 25,
                  !.latency_p99 = 450],
   detected |-> "Queue depth explosion"]

\* ------------------------------------------------- inputs of the model
\* the scenarios runs are started on: one whose baseline the simulated
\* recovery meets, one whose baseline it does not meet
Scenarios == { scenario_latency_spike, scenario_resource_saturation }

\* Incident.service_name is any string: a service of the simulator, and a
\* production-named service as a caller of IncidentPipeline.run may pass
ServiceNames ==
  { <<"a","p","i","-","s","e","r","v","i","c","e">>,
    <<"p","a","y","m","e","n","t","-","P","R","O","D">> }

\* the configuration of IncidentPipeline(guardrail_config): the default, and
\* one whose replica limit is the current replica count
Configs == { _default_config, [_default_config EXCEPT !.max_scale_replicas = 3] }

\* what the remote collaborators may answer: runbook texts, log samples,
\* hypothesis lists
RunbookTexts == { {}, {"disable", "cache"} }

LogSamples == { << {"ERROR", "redis-cache", "refused"} >> }

TriageTypes == {"error_rate_increase", "resource_saturation", "unknown"}

HypothesisLists ==
  { << [description |-> {"deploy", "deployment"}, confidence |-> 80],
       [description |-> {"downstream"}, confidence |-> 60] >>,
    << [description |-> {}, confidence |-> 50] >> }

TriageConfidences == {85}

Objs == {"o1"}

Callers == {1, 2}

\* ------------------------------------------------------------ core/state
\* IncidentStore.incidents: a dictionary from id to the incident object
\* an update that stores the incident under every key
update_incident_under_every_key(st, incident_id, o) ==
  [k \in DOMAIN st \cup {incident_id} |-> o]

update_incident(st, incident_id, o) ==
  [k \in DOMAIN st \cup {incident_id} |-> IF k = incident_id THEN o ELSE st[k]]

create_incident(st, incident_id, o) == update_incident(st, incident_id, o)

\* a lookup that falls back on some stored incident when the id is unknown
get_incident_with_fallback(st, incident_id) ==
  IF incident_id \in DOMAIN st THEN st[incident_id]
  ELSE IF DOMAIN st # {} THEN st[CHOOSE k \in DOMAIN st : TRUE]
  ELSE NoObj

get_incident(st, incident_id) ==
  IF incident_id \in DOMAIN st THEN st[incident_id] ELSE NoObj

\* sum(... for i in ...): the sum of f over the keys S
RECURSIVE sum(_, _)
sum(f, S) ==
  IF S = {} THEN 0
  ELSE LET k == CHOOSE x \in S : TRUE IN f[k] + sum(f, S \ {k})

\* a quotient of two integers, kept exact
Ratio(num, den) == [num |-> num, den |-> den]

\* a filter that takes every finished incident
in_completed_any_terminal(inc) == inc.stage \in {"completed", "failed"}

\* the filter of line 44
in_completed(inc) == inc.stage = "completed"

\* get_active_incidents: the keys of the incidents that are not terminal
get_active_incidents(st, incs) ==
  {k \in DOMAIN st : incs[st[k]].stage \notin {"completed", "failed"}}

\* get_statistics: incs gives the incident of each object; the list of the
\* values of the dictionary has one entry per key
get_statistics(st, incs) ==
  LET completed == {k \in DOMAIN st : in_completed(incs[st[k]])}
      n == Cardinality(completed)
      m(k) == incs[st[k]].metrics
  IN IF completed = {}
     THEN [total_incidents |-> Cardinality(DOMAIN st), completed |-> 0,
           avg_detection_latency |-> Ratio(0, 1),
           avg_time_to_mitigation |-> Ratio(0, 1),
           success_rate |-> Ratio(0, 1),
           triage_accuracy |-> Ratio(0, 1)]
     ELSE [total_incidents |-> Cardinality(DOMAIN st), completed |-> n,
           active |-> Cardinality(get_active_incidents(st, incs)),
           avg_detection_latency |->
             Ratio(sum([k \in completed |-> m(k).detection_latency_seconds], completed), n),
           avg_time_to_mitigation |->
             Ratio(sum([k \in completed |-> m(k).time_to_mitigation_seconds], completed), n),
           success_rate |->
             Ratio(100 * sum([k \in completed |->
                               IF m(k).mitigation_success THEN 1 ELSE 0], completed), n),
           triage_accuracy |->
             Ratio(100 * sum([k \in completed |-> m(k).triage_accuracy], completed), n)]

\* ------------------------------------------------------------------ state
VARIABLES
  now,        \* the clock, in seconds
  config,     \* pipeline.guardrails.config
  incidents,  \* the Incident objects, by object
  store,      \* incident_store.incidents
  run,        \* per incident object: the pipeline.run task on it
  appr,       \* per caller: the approve_mitigation request it has made
  approvals,  \* number of approve_mitigation requests made
  applies,    \* per incident object: number of apply_mitigation calls
  end_time_writes,  \* per incident object: number of assignments to end_time
  call        \* the call of GuardrailEngine.check_mitigation under study

vars == <<now, config, incidents, store, run, appr, approvals, applies,
         end_time_writes, call>>

NoRun ==
  [pc |-> "none", auto_approve |-> FALSE, current_metrics |-> EmptyDict,
   baseline_metrics |-> EmptyDict, context |-> EmptyDict,
   status |-> "none", error |-> "none"]

NoCall ==
  [pc |-> "idle", incident_id |-> NoTime, obj |-> NoObj, approved_at_ts |-> NoTime,
   applied_at |-> NoTime, context |-> EmptyDict, seen |-> "none", status |-> "none",
   error |-> "none"]

\* no call of check_mitigation is under study
NoCheck == [pc |-> "none"]

Init ==
  /\ now = 0
  /\ config \in Configs
  /\ incidents = [o \in Objs |-> None]
  /\ store = EmptyDict
  /\ run = [o \in Objs |-> NoRun]
  /\ appr = [c \in Callers |-> NoCall]
  /\ approvals = 0
  /\ applies = [o \in Objs |-> 0]
  /\ end_time_writes = [o \in Objs |-> 0]
  /\ call = NoCheck

\* the places where a pipeline run, or an approval request, awaits a
\* collaborator
RunAwaits == {"scout", "triage", "hypothesis", "experiment", "executor", "apply", "postcheck"}

ApproveAwaits == {"apply", "postcheck"}

\* no handler is between two of its awaits
Idle ==
  /\ \A o \in Objs : run[o].pc \notin RunAwaits
  /\ \A c \in Callers : appr[c].pc \notin ApproveAwaits

Tick ==
  /\ now < MaxTime
  /\ now' = now + 1
  /\ UNCHANGED <<config, incidents, store, run, appr, approvals, applies,
                 end_time_writes, call>>

Put(d, k, v) == (k :> v) @@ d

\* the ids approval is requested for: the stored ones and one that is not
UnknownId == MaxTime + 1

ApproveIds == DOMAIN store \cup {UnknownId}

\* ------------------------------------------ api.simulate_incident, main
\* generate an incident (its id is the second it is generated in), store it
\* and schedule pipeline.run on it
Simulate(o, sc, service_name, auto_approve) ==
  /\ run[o].pc = "none"
  /\ incidents' = [incidents EXCEPT ![o] =
        Incident(now, service_name, sc.severity,
                 Event("detection", sc.detected, << >>))]
  /\ store' = create_incident(store, now, o)
  /\ run' = [run EXCEPT ![o] =
        [NoRun EXCEPT !.pc = "pending", !.auto_approve = auto_approve,
                      !.current_metrics = sc.current,
                      !.baseline_metrics = sc.baseline]]
  /\ UNCHANGED <<now, config, appr, approvals, applies, end_time_writes, call>>

\* a caller of IncidentPipeline.run that passes an incident it has not put in
\* the store
RunDirect(o, sc, service_name, auto_approve) ==
  /\ run[o].pc = "none"
  /\ incidents' = [incidents EXCEPT ![o] =
        Incident(now, service_name, sc.severity,
                 Event("detection", sc.detected, << >>))]
  /\ run' = [run EXCEPT ![o] =
        [NoRun EXCEPT !.pc = "pending", !.auto_approve = auto_approve,
                      !.current_metrics = sc.current,
                      !.baseline_metrics = sc.baseline]]
  /\ UNCHANGED <<now, config, store, appr, approvals, applies, end_time_writes, call>>

\* ------------------------------------------------- IncidentPipeline.run
\* up to the await of scout.execute
RunStart(o) ==
  /\ run[o].pc = "pending"
  /\ run' = [run EXCEPT ![o].pc = "scout",
                        ![o].context =
                          [incident |-> o,
                           current_metrics |-> run[o].current_metrics,
                           baseline_metrics |-> run[o].baseline_metrics,
                           detection_start |-> now]]
  /\ incidents' = [incidents EXCEPT ![o].stage = "scout"]
  /\ UNCHANGED <<now, config, store, appr, approvals, applies, end_time_writes, call>>

\* _run_scout after scout.execute has returned, then _run_triage up to its await
ScoutReturn(o, rb_text, logs) ==
  /\ run[o].pc = "scout"
  /\ LET evidence == [metrics |-> _gather_metrics(run[o].context.current_metrics),
                      logs |-> logs,
                      recent_deploys |-> _check_recent_deploys]
         inc1 == add_timeline_event([incidents[o] EXCEPT !.evidence = evidence],
                                    "scout", "Collected evidence", << >>)
     IN /\ incidents' = [incidents EXCEPT ![o] = [inc1 EXCEPT !.stage = "triage"]]
        /\ run' = [run EXCEPT ![o].pc = "triage",
                              ![o].context = Put(Put(@, "evidence", evidence),
                                                 "runbooks", rb_text)]
  /\ UNCHANGED <<now, config, store, appr, approvals, applies, end_time_writes, call>>

\* _run_triage after triage.execute has returned, then _run_hypothesis up to its await
TriageReturn(o, incident_type, confidence) ==
  /\ run[o].pc = "triage"
  /\ LET inc1 == add_timeline_event(
                   [incidents[o] EXCEPT !.incident_type = incident_type,
                                        !.metrics.triage_accuracy = confidence],
                   "triage", "Classified", << incident_type >>)
     IN incidents' = [incidents EXCEPT ![o] = [inc1 EXCEPT !.stage = "hypothesis"]]
  /\ run' = [run EXCEPT ![o].pc = "hypothesis",
                        ![o].context = Put(@, "incident_type", incident_type)]
  /\ UNCHANGED <<now, config, store, appr, approvals, applies, end_time_writes, call>>

\* _run_hypothesis after hypothesis.execute has returned, then _run_experiment
\* up to its await
HypothesisReturn(o, hypotheses) ==
  /\ run[o].pc = "hypothesis"
  /\ LET inc1 == add_timeline_event([incidents[o] EXCEPT !.hypotheses = hypotheses],
                                    "hypothesis", "Generated hypotheses", << >>)
     IN incidents' = [incidents EXCEPT ![o] = [inc1 EXCEPT !.stage = "experiment"]]
  /\ run' = [run EXCEPT ![o].pc = "experiment",
                        ![o].context = Put(@, "hypotheses", hypotheses)]
  /\ UNCHANGED <<now, config, store, appr, approvals, applies, end_time_writes, call>>

\* _run_experiment after experiment.execute has returned, then _run_executor up
\* to the await of executor.execute
ExperimentReturn(o) ==
  /\ run[o].pc = "experiment"
  /\ LET result == experiment_execute(run[o].context.hypotheses, run[o].context.evidence)
         inc1 == add_timeline_event(
                   [incidents[o] EXCEPT !.experiments = result.experiment_results],
                   "experiment", "Validated hypotheses", << >>)
     IN /\ incidents' = [incidents EXCEPT ![o] = [inc1 EXCEPT !.stage = "executor"]]
        /\ run' = [run EXCEPT ![o].pc = "executor",
                              ![o].context = Put(@, "most_likely_cause",
                                                 result.most_likely_cause)]
  /\ UNCHANGED <<now, config, store, appr, approvals, applies, end_time_writes, call>>

\* _run_executor: the run waits for a human only when this holds
awaits_approval(mitigation, auto_approve) ==
  mitigation.requires_approval /\ ~auto_approve

\* time.sleep(1); the clock of the model stops at MaxTime
sleep_1(t) == Min(t + 1, MaxTime)

\* _run_postcheck up to the await of postcheck.execute: the context gets the
\* simulated post-mitigation metrics
begin_postcheck(context) ==
  Put(context, "current_metrics", _simulate_recovery(context.current_metrics))

\* PostcheckAgent.execute: the verdict and the report; it sets end_time when
\* the incident has none
postcheck_execute(inc, context, t) ==
  [metrics_recovered |->
     _check_recovery(Get(context, "baseline_metrics", EmptyDict),
                     Get(context, "current_metrics", EmptyDict)).recovered,
   incident_summary |-> "Incident Report",
   end_time |-> IF inc.end_time = NoTime THEN t ELSE inc.end_time]

\* the assignments to end_time that PostcheckAgent.execute makes (line 29)
\* followed by the one its caller makes
end_time_assignments(inc) == (IF inc.end_time = NoTime THEN 1 ELSE 0) + 1

\* _run_postcheck after postcheck.execute has returned
finish_postcheck(inc, result) ==
  add_timeline_event(
    [inc EXCEPT !.end_time = result.end_time,
                !.metrics_recovered = result.metrics_recovered,
                !.incident_summary = result.incident_summary],
    "postcheck", "Recovery verification complete",
    << IF result.metrics_recovered THEN "recovered" ELSE "not recovered" >>)

\* a run that ends by going back to the executor stage
run_final_stage_reopens(inc) == "executor"

\* run, after _run_postcheck: the stage the run ends in
run_final_stage(inc) == "completed"

\* run, lines 77-88
mark_completed(inc, detection_start, t) ==
  add_timeline_event(
    [inc EXCEPT !.stage = run_final_stage(inc),
                !.end_time = t,
                !.metrics.detection_latency_seconds = 25,
                !.metrics.time_to_mitigation_seconds =
                   IF @ = 0 THEN t - detection_start ELSE @,
                !.metrics.mitigation_success = inc.metrics_recovered],
    "completed", "Incident pipeline completed successfully", << >>)

\* the except clause without the transition to failed
except_handler_keeps_stage(inc, err) ==
  add_timeline_event(inc, "failed", "Pipeline failed", << err >>)

\* run, the except clause: err is the text of the exception
except_handler(inc, err) ==
  add_timeline_event([inc EXCEPT !.stage = "failed"],
                     "failed", "Pipeline failed", << err >>)

\* a run that stops at the message and waits for the approval
after_proposal_waits(mitigation, auto_approve) ==
  IF mitigation.requires_approval /\ ~auto_approve THEN "paused" ELSE "apply"

\* _run_executor, lines 204-216: with or without the approval message, the
\* run goes on to the await of apply_mitigation
after_proposal(mitigation, auto_approve) == "apply"

\* _run_executor after executor.execute has returned: a blocked proposal
\* returns to run, which goes on with _run_postcheck; otherwise up to the
\* await of apply_mitigation
ExecutorReturn(o) ==
  /\ run[o].pc = "executor"
  /\ LET result == executor_execute(config, incidents[o], run[o].context)
         mitigation == result.mitigation
     IN IF result.status = "blocked"
        THEN /\ incidents' = [incidents EXCEPT ![o] =
                  [add_timeline_event(@, "executor", "Mitigation blocked by guardrails",
                                      << result.reason >>)
                     EXCEPT !.stage = "postcheck"]]
             /\ run' = [run EXCEPT ![o].pc = "postcheck", ![o].status = "blocked",
                                   ![o].context = begin_postcheck(@)]
             /\ UNCHANGED <<now, applies>>
        ELSE /\ incidents' = [incidents EXCEPT ![o] =
                  IF awaits_approval(mitigation, run[o].auto_approve)
                  THEN add_timeline_event([@ EXCEPT !.proposed_mitigation = mitigation],
                         "executor", "Mitigation proposed, awaiting approval",
                         << mitigation.type >>)
                  ELSE [@ EXCEPT !.proposed_mitigation = mitigation]]
             /\ now' = IF awaits_approval(mitigation, run[o].auto_approve)
                       THEN sleep_1(now) ELSE now
             /\ run' = [run EXCEPT ![o].pc = after_proposal(mitigation, run[o].auto_approve),
                                   ![o].status = "proposed"]
             /\ applies' = [applies EXCEPT ![o] = @ + 1]
  /\ UNCHANGED <<config, store, appr, approvals, end_time_writes, call>>

\* a time to mitigation that is left at its default
mitigation_time_unrecorded(context, t) == 0

\* time.time() - context.get("detection_start", time.time())  (line 221)
mitigation_time(context, t) == t - Get(context, "detection_start", t)

\* _run_executor after apply_mitigation has returned, then _run_postcheck up to
\* its await
ApplyReturn(o) ==
  /\ run[o].pc = "apply"
  /\ LET mitigation == incidents[o].proposed_mitigation
         apply_result == apply_mitigation(mitigation, incidents[o].service_name, now)
         inc1 == IF apply_result.success
                 THEN add_timeline_event(
                        [incidents[o] EXCEPT
                           !.metrics.time_to_mitigation_seconds =
                              mitigation_time(run[o].context, now),
                           !.applied_mitigation = mitigation,
                           !.mitigation_approved = TRUE],
                        "executor", "Mitigation applied successfully",
                        << mitigation.type >>)
                 ELSE incidents[o]
     IN incidents' = [incidents EXCEPT ![o] = [inc1 EXCEPT !.stage = "postcheck"]]
  /\ run' = [run EXCEPT ![o].pc = "postcheck", ![o].context = begin_postcheck(@)]
  /\ UNCHANGED <<now, config, store, appr, approvals, applies, end_time_writes, call>>

\* _run_postcheck after postcheck.execute has returned, then the rest of run:
\* mark completed, save, return
PostcheckReturn(o) ==
  /\ run[o].pc = "postcheck"
  /\ LET result == postcheck_execute(incidents[o], run[o].context, now)
         inc1 == finish_postcheck(incidents[o], result)
     IN incidents' = [incidents EXCEPT ![o] =
                        mark_completed(inc1, run[o].context.detection_start, now)]
  /\ end_time_writes' = [end_time_writes EXCEPT
                            ![o] = @ + end_time_assignments(incidents[o])]
  /\ store' = update_incident(store, incidents[o].id, o)
  /\ run' = [run EXCEPT ![o].pc = "done"]
  /\ UNCHANGED <<now, config, appr, approvals, applies, call>>

\* an awaited collaborator raises: the except clause of run, save, return
RunRaise(o) ==
  /\ run[o].pc \in RunAwaits
  /\ incidents' = [incidents EXCEPT ![o] = except_handler(@, run[o].pc)]
  /\ store' = update_incident(store, incidents[o].id, o)
  /\ run' = [run EXCEPT ![o].pc = "done", ![o].error = run[o].pc]
  /\ UNCHANGED <<now, config, appr, approvals, applies, end_time_writes, call>>

\* ------------------------------------------------ api.approve_mitigation
\* the checks without the one for a mitigation that is already applied
approve_precheck_not_idempotent(st, incs, incident_id) ==
  LET o == get_incident(st, incident_id)
  IN IF o = NoObj THEN "404"
     ELSE IF incs[o].proposed_mitigation = None THEN "400"
     ELSE "approve"

\* the checks before anything is changed (lines 126-139)
approve_precheck(st, incs, incident_id) ==
  LET o == get_incident(st, incident_id)
  IN IF o = NoObj THEN "404"
     ELSE IF incs[o].proposed_mitigation = None THEN "400"
     ELSE IF incs[o].applied_mitigation # None THEN "already_applied"
     ELSE "approve"

\* getattr(incident.metrics, "pipeline_start_ts", 0.0) or approved_at_ts
approve_start_ts(metrics, approved_at_ts) ==
  LET pipeline_start_ts == Get(metrics, "pipeline_start_ts", 0)
  IN IF pipeline_start_ts # 0 THEN pipeline_start_ts ELSE approved_at_ts

\* approve_mitigation leaving the stage where _run_postcheck has put it
approve_final_stage_unset(inc) == inc.stage

\* the stage approve_mitigation ends in (line 194)
approve_final_stage(inc) ==
  IF inc.metrics_recovered THEN "completed" ELSE "failed"

\* approve_mitigation up to the await of apply_mitigation; a request that is
\* refused or finds the mitigation applied returns at once.  Callers are
\* taken in order; the requests that get as far as the apply are counted.
ApproveStart(c, incident_id) ==
  /\ appr[c].pc \notin ApproveAwaits
  /\ \A d \in Callers : d < c => appr[d].pc \in ApproveAwaits
  /\ LET o == get_incident(store, incident_id)
         verdict == approve_precheck(store, incidents, incident_id)
     IN IF verdict # "approve"
        THEN /\ appr' = [appr EXCEPT ![c] =
                  [NoCall EXCEPT !.pc = "done", !.incident_id = incident_id,
                                 !.obj = o, !.status = verdict]]
             /\ UNCHANGED <<incidents, store, applies, approvals>>
        ELSE /\ approvals < MaxApprovals
             /\ approvals' = approvals + 1
             /\ incidents' = [incidents EXCEPT ![o] =
                  add_timeline_event([@ EXCEPT !.mitigation_approved = TRUE],
                     "approval", "Human approved proposed mitigation",
                     << incidents[o].proposed_mitigation.type >>)]
             /\ store' = update_incident(store, incident_id, o)
             /\ appr' = [appr EXCEPT ![c] =
                  [NoCall EXCEPT !.pc = "apply", !.incident_id = incident_id,
                                 !.obj = o, !.approved_at_ts = now,
                                 !.seen = incidents[o].stage]]
             /\ applies' = [applies EXCEPT ![o] = @ + 1]
  /\ UNCHANGED <<now, config, run, end_time_writes, call>>

\* approve_mitigation after apply_mitigation has returned, then _run_postcheck
\* up to the await of postcheck.execute
ApproveApplyReturn(c) ==
  /\ appr[c].pc = "apply"
  /\ LET o == appr[c].obj
         inc == incidents[o]
         apply_result == apply_mitigation(inc.proposed_mitigation, inc.service_name, now)
         start_ts == approve_start_ts(inc.metrics, appr[c].approved_at_ts)
         context == [incident |-> o, current_metrics |-> EmptyDict,
                     baseline_metrics |-> EmptyDict]
     IN IF ~apply_result.success
        THEN /\ incidents' = [incidents EXCEPT ![o] =
                  add_timeline_event([inc EXCEPT !.stage = "failed"],
                     "executor", "Mitigation apply failed", << >>)]
             /\ appr' = [appr EXCEPT ![c].pc = "done", ![c].status = "500"]
        ELSE /\ incidents' = [incidents EXCEPT ![o] =
                  add_timeline_event(
                    [inc EXCEPT !.applied_mitigation = inc.proposed_mitigation,
                                !.stage = "postcheck",
                                !.metrics.time_to_mitigation_seconds =
                                   IF @ = 0 THEN Max(0, now - start_ts) ELSE @],
                    "executor", "Mitigation applied after human approval",
                    << inc.proposed_mitigation.type >>)]
             /\ appr' = [appr EXCEPT ![c].pc = "postcheck", ![c].applied_at = now,
                                     ![c].context = begin_postcheck(context)]
  /\ store' = update_incident(store, appr[c].incident_id, appr[c].obj)
  /\ UNCHANGED <<now, config, run, approvals, applies, end_time_writes, call>>

\* approve_mitigation after postcheck.execute has returned: the terminal
\* stage, save, return
ApprovePostcheckReturn(c) ==
  /\ appr[c].pc = "postcheck"
  /\ LET o == appr[c].obj
         result == postcheck_execute(incidents[o], appr[c].context, now)
         inc1 == finish_postcheck(incidents[o], result)
         inc2 == [inc1 EXCEPT !.stage = approve_final_stage(inc1),
                              !.end_time = now,
                              !.metrics.mitigation_success = inc1.metrics_recovered]
     IN /\ incidents' = [incidents EXCEPT ![o] =
             IF inc1.metrics_recovered
             THEN add_timeline_event(inc2, "completed",
                    "Incident completed after human approval", << >>)
             ELSE add_timeline_event(inc2, "failed",
                    "Incident failed after human approval", << >>)]
        /\ appr' = [appr EXCEPT ![c].pc = "done",
                                ![c].status = IF inc1.metrics_recovered THEN "applied"
                                              ELSE "applied_but_not_recovered"]
  /\ end_time_writes' = [end_time_writes EXCEPT
        ![appr[c].obj] = @ + end_time_assignments(incidents[appr[c].obj])]
  /\ store' = update_incident(store, appr[c].incident_id, appr[c].obj)
  /\ UNCHANGED <<now, config, run, approvals, applies, call>>

\* an awaited collaborator raises inside approve_mitigation: nothing catches
\* it, the request ends with an error
ApproveRaise(c) ==
  /\ appr[c].pc \in ApproveAwaits
  /\ appr' = [appr EXCEPT ![c].pc = "done", ![c].status = "raised",
                          ![c].error = appr[c].pc]
  /\ UNCHANGED <<now, config, incidents, store, run, approvals, applies,
                 end_time_writes, call>>

\* ---------------------------------------------------------- specifications
\* The handlers as the event loop runs them when no awaited collaborator
\* suspends: a handler starts only when no other is between two awaits.
Next ==
  \/ Tick
  \/ \E o \in Objs, sc \in Scenarios, sn \in ServiceNames, aa \in BOOLEAN :
        Idle /\ Simulate(o, sc, sn, aa)
  \/ \E o \in Objs, sc \in Scenarios, sn \in ServiceNames, aa \in BOOLEAN :
        Idle /\ RunDirect(o, sc, sn, aa)
  \/ \E o \in Objs : Idle /\ RunStart(o)
  \/ \E o \in Objs, rb \in RunbookTexts, logs \in LogSamples : ScoutReturn(o, rb, logs)
  \/ \E o \in Objs, t \in TriageTypes, cf \in TriageConfidences : TriageReturn(o, t, cf)
  \/ \E o \in Objs, h \in HypothesisLists : HypothesisReturn(o, h)
  \/ \E o \in Objs : ExperimentReturn(o)
  \/ \E o \in Objs : ExecutorReturn(o)
  \/ \E o \in Objs : ApplyReturn(o)
  \/ \E o \in Objs : PostcheckReturn(o)
  \/ \E o \in Objs : RunRaise(o)
  \/ \E c \in Callers, id \in ApproveIds : Idle /\ ApproveStart(c, id)
  \/ \E c \in Callers : ApproveApplyReturn(c)
  \/ \E c \in Callers : ApprovePostcheckReturn(c)
  \/ \E c \in Callers : ApproveRaise(c)

Spec == Init /\ [][Next]_vars

\* The handlers when every awaited collaborator may suspend: the steps of a
\* pipeline run and of approval requests interleave at the awaits.  Time is
\* the subject of Spec; here the clock moves with the sleep of the run only.
NextAwait ==
  \/ \E o \in Objs, sc \in Scenarios, sn \in ServiceNames, aa \in BOOLEAN :
        Simulate(o, sc, sn, aa)
  \/ \E o \in Objs : RunStart(o)
  \/ \E o \in Objs, rb \in RunbookTexts, logs \in LogSamples : ScoutReturn(o, rb, logs)
  \/ \E o \in Objs, t \in TriageTypes, cf \in TriageConfidences : TriageReturn(o, t, cf)
  \/ \E o \in Objs, h \in HypothesisLists : HypothesisReturn(o, h)
  \/ \E o \in Objs : ExperimentReturn(o)
  \/ \E o \in Objs : ExecutorReturn(o)
  \/ \E o \in Objs : ApplyReturn(o)
  \/ \E o \in Objs : PostcheckReturn(o)
  \/ \E o \in Objs : RunRaise(o)
  \/ \E c \in Callers, id \in ApproveIds : ApproveStart(c, id)
  \/ \E c \in Callers : ApproveApplyReturn(c)
  \/ \E c \in Callers : ApprovePostcheckReturn(c)
  \/ \E c \in Callers : ApproveRaise(c)

SpecAwait == Init /\ [][NextAwait]_vars

\* The awaited collaborator of a run returns or raises: a step of the run
\* of o from one of its awaits
RunReturns(o) ==
  \/ \E rb \in RunbookTexts, logs \in LogSamples : ScoutReturn(o, rb, logs)
  \/ \E t \in TriageTypes, cf \in TriageConfidences : TriageReturn(o, t, cf)
  \/ \E h \in HypothesisLists : HypothesisReturn(o, h)
  \/ ExperimentReturn(o)
  \/ ExecutorReturn(o)
  \/ ApplyReturn(o)
  \/ PostcheckReturn(o)
  \/ RunRaise(o)

\* The handlers of Spec on incidents of the store, the clock moving with
\* the sleep of the run only
NextLive ==
  \/ \E o \in Objs, sc \in Scenarios, sn \in ServiceNames, aa \in BOOLEAN :
        Idle /\ Simulate(o, sc, sn, aa)
  \/ \E o \in Objs : Idle /\ RunStart(o)
  \/ \E o \in Objs : RunReturns(o)
  \/ \E c \in Callers, id \in ApproveIds : Idle /\ ApproveStart(c, id)
  \/ \E c \in Callers : ApproveApplyReturn(c)
  \/ \E c \in Callers : ApprovePostcheckReturn(c)
  \/ \E c \in Callers : ApproveRaise(c)

\* every awaited collaborator of a run eventually returns or raises; nothing
\* is assumed of approval requests
SpecLive == Init /\ [][NextLive]_vars /\ \A o \in Objs : WF_vars(RunReturns(o))

\* ------------------------------------- GuardrailEngine.check_mitigation
\* The guardrail on its own: a call of check_mitigation with arguments drawn
\* from the sets below, on an engine of any of the configurations.
IncidentSeverity == {"critical", "high", "medium", "low"}

MitigationType ==
  {"rollback", "scale_up", "scale_down", "feature_flag_disable", "traffic_shed",
   "restart_service"}

\* target_replicas absent, and below, at and above the two limits
GuardParameters ==
  {EmptyDict} \cup { [target_replicas |-> n] : n \in {3, 4, 10, 11} }

GuardMitigations ==
  { [type |-> t, parameters |-> ps, reversible |-> rv, risk_level |-> "low",
     requires_approval |-> ra] :
    t \in MitigationType, ps \in GuardParameters, rv \in BOOLEAN, ra \in BOOLEAN }

GuardConfigs ==
  { [_default_config EXCEPT !.max_scale_replicas = n, !.allow_auto_mitigation = a,
                            !.production_requires_approval = pa] :
    n \in {3, 10}, a \in BOOLEAN, pa \in BOOLEAN }

InitGuard ==
  /\ now = 0
  /\ config \in GuardConfigs
  /\ incidents = [o \in Objs |-> None]
  /\ store = EmptyDict
  /\ run = [o \in Objs |-> NoRun]
  /\ appr = [c \in Callers |-> NoCall]
  /\ approvals = 0
  /\ applies = [o \in Objs |-> 0]
  /\ end_time_writes = [o \in Objs |-> 0]
  /\ call \in { [pc |-> "called", mitigation |-> m, severity |-> sv,
                 service_name |-> sn] :
                m \in GuardMitigations, sv \in IncidentSeverity, sn \in ServiceNames }

\* the call returns: the check, and the mitigation as the call has left it
CheckMitigation ==
  /\ call.pc = "called"
  /\ call' = [pc |-> "returned", mitigation |-> call.mitigation,
              severity |-> call.severity, service_name |-> call.service_name,
              result |-> check_mitigation(config, call.mitigation, call.severity,
                                          call.service_name)]
  /\ UNCHANGED <<now, config, incidents, store, run, appr, approvals, applies,
                 end_time_writes>>

NextGuard == CheckMitigation

SpecGuard == InitGuard /\ [][NextGuard]_vars

\* ------------------------------------ ExecutorAgent._compute_scale_target
\* The scale target on its own: a call with a metrics snapshot, a replica
\* count and a base bump drawn from the sets below, on an executor whose
\* guardrail engine has any of the configurations.
\* each signal below, between and above its thresholds
ScaleMetrics ==
  { [cpu_usage |-> cpu, memory_usage |-> mem, latency_p99 |-> lat,
     queue_depth |-> q, error_rate |-> err] :
    cpu \in {50, 86, 91}, mem \in {50, 91}, lat \in {1000, 2500, 3500},
    q \in {0, 1500, 2500}, err \in {100, 600} }

\* one replica, the default count, and the default limit
ScaleReplicas == {1, 3, 10}

\* the base bump of the default rule and of the resource rule
ScaleBumps == {1, 2}

\* the configurations, each with a factor of two and of three
ScaleConfigs == { [c EXCEPT !.max_scale_factor = f] : c \in Configs, f \in {2, 3} }

InitScale ==
  /\ now = 0
  /\ config \in ScaleConfigs
  /\ incidents = [o \in Objs |-> None]
  /\ store = EmptyDict
  /\ run = [o \in Objs |-> NoRun]
  /\ appr = [c \in Callers |-> NoCall]
  /\ approvals = 0
  /\ applies = [o \in Objs |-> 0]
  /\ end_time_writes = [o \in Objs |-> 0]
  /\ call \in { [pc |-> "called", metrics |-> m, current_replicas |-> n,
                 default_bump |-> b] :
                m \in ScaleMetrics, n \in ScaleReplicas, b \in ScaleBumps }

ComputeScaleTarget ==
  /\ call.pc = "called"
  /\ call' = [pc |-> "returned", metrics |-> call.metrics,
              current_replicas |-> call.current_replicas,
              default_bump |-> call.default_bump,
              result |-> _compute_scale_target(config, call.metrics,
                                               call.current_replicas,
                                               call.default_bump)]
  /\ UNCHANGED <<now, config, incidents, store, run, appr, approvals, applies,
                 end_time_writes>>

NextScale == ComputeScaleTarget

SpecScale == InitScale /\ [][NextScale]_vars

\* -------------------------------------- ExecutorAgent._propose_mitigation
\* The selector on its own: a call with an incident type, a root-cause text,
\* evidence, a service state and a runbook text drawn from the sets below.
SelectTypes == {"latency_spike", "resource_saturation", "error_rate_increase"}

\* root-cause texts, as the searched keywords they contain
SelectRootCauses == { {}, {"deploy", "deployment"}, {"release", "downstream"},
                      {"memory"}, {"dependency"} }

\* runbook texts, as the searched keywords they contain
SelectRunbookTexts == { {}, {"rollback"}, {"scale"}, {"disable", "cache"} }

\* deploy histories: none, one deploy, two deploys, two deploys of which the
\* previous one has no version
SelectDeploys ==
  { << >>,
    _check_recent_deploys,
    << [version |-> "v1.2.3", commit |-> "abc123f"],
       [version |-> "v1.2.2", commit |-> "9f8e7d6"] >>,
    << [version |-> "v1.2.3", commit |-> "abc123f"], [commit |-> "9f8e7d6"] >> }

\* no evidence, or evidence with the metrics of a scenario
SelectEvidence ==
  {None} \cup { [metrics |-> _gather_metrics(scenario_resource_saturation.current),
                 recent_deploys |-> d] : d \in SelectDeploys }

SelectServiceStates ==
  { EmptyDict, [replicas |-> 3, environment |-> "prod"] }

InitSelect ==
  /\ now = 0
  /\ config \in Configs
  /\ incidents = [o \in Objs |-> None]
  /\ store = EmptyDict
  /\ run = [o \in Objs |-> NoRun]
  /\ appr = [c \in Callers |-> NoCall]
  /\ approvals = 0
  /\ applies = [o \in Objs |-> 0]
  /\ end_time_writes = [o \in Objs |-> 0]
  /\ call \in { [pc |-> "called", incident_type |-> t, root_cause |-> rc,
                 evidence |-> e, service_state |-> ss, rb_text |-> rb] :
                t \in SelectTypes, rc \in SelectRootCauses,
                e \in SelectEvidence, ss \in SelectServiceStates,
                rb \in SelectRunbookTexts }

ProposeMitigation ==
  /\ call.pc = "called"
  /\ call' = [pc |-> "returned", incident_type |-> call.incident_type,
              root_cause |-> call.root_cause, evidence |-> call.evidence,
              service_state |-> call.service_state, rb_text |-> call.rb_text,
              result |-> _propose_mitigation(config, call.incident_type,
                           call.root_cause, call.evidence,
                           call.service_state, call.rb_text)]
  /\ UNCHANGED <<now, config, incidents, store, run, appr, approvals, applies,
                 end_time_writes>>

NextSelect == ProposeMitigation

SpecSelect == InitSelect /\ [][NextSelect]_vars

\* --------------------------------------- PostcheckAgent._check_recovery
\* The recovery check on its own: a call with a baseline and a current
\* dictionary drawn from the sets below.
\* the values of each metric of current: at and just above what passes
\* against a baseline of 200 and of 500 ms, of 0.1% and against 80
RecoveryValues ==
  [latency_p99 |-> {240, 241, 600, 601}, error_rate |-> {20, 21},
   cpu_usage |-> {79, 80}, memory_usage |-> {79, 80}, request_rate |-> {100}]

\* the dictionaries with any of the metrics above as keys
RecoveryCurrents ==
  UNION { { f \in [K -> UNION { RecoveryValues[k] : k \in K }] :
            \A k \in K : f[k] \in RecoveryValues[k] } :
          K \in SUBSET DOMAIN RecoveryValues }

\* no baseline, the baseline of a scenario, a baseline without a latency
RecoveryBaselines ==
  { EmptyDict, baseline_latency_spike, [error_rate |-> 10] }

InitRecovery ==
  /\ now = 0
  /\ config = _default_config
  /\ incidents = [o \in Objs |-> None]
  /\ store = EmptyDict
  /\ run = [o \in Objs |-> NoRun]
  /\ appr = [c \in Callers |-> NoCall]
  /\ approvals = 0
  /\ applies = [o \in Objs |-> 0]
  /\ end_time_writes = [o \in Objs |-> 0]
  /\ call \in { [pc |-> "called", baseline |-> b, current |-> c] :
                b \in RecoveryBaselines, c \in RecoveryCurrents }

CheckRecovery ==
  /\ call.pc = "called"
  /\ call' = [pc |-> "returned", baseline |-> call.baseline,
              current |-> call.current,
              result |-> _check_recovery(call.baseline, call.current)]
  /\ UNCHANGED <<now, config, incidents, store, run, appr, approvals, applies,
                 end_time_writes>>

NextRecovery == CheckRecovery

SpecRecovery == InitRecovery /\ [][NextRecovery]_vars

\* --------------------------------------------- IncidentStore on its own
\* The store under any sequence of create_incident and update_incident calls
\* with incidents at any stage, then a call of get_statistics.
StoreObjs == {"o1", "o2", "o3"}

StoreIds == {1, 2, 3}

\* the stages of an incident in flight, a completed and a failed one
StoreStages == {"executor", "completed", "failed"}

\* the metrics of two runs: detection latency in tenths of a second, triage
\* confidence in percent
StoreMetrics ==
  { [detection_latency_seconds |-> 25, triage_accuracy |-> 85,
     time_to_mitigation_seconds |-> 1, mitigation_success |-> TRUE],
    [detection_latency_seconds |-> 25, triage_accuracy |-> 50,
     time_to_mitigation_seconds |-> 2, mitigation_success |-> FALSE] }

StoreIncident(id, stage, metrics) ==
  [Incident(id, <<"a","p","i">>, "high", Event("detection", "detected", << >>))
     EXCEPT !.stage = stage, !.metrics = metrics]

InitStore ==
  /\ now = 0
  /\ config = _default_config
  /\ incidents = [o \in StoreObjs |-> None]
  /\ store = EmptyDict
  /\ run = [o \in Objs |-> NoRun]
  /\ appr = [c \in Callers |-> NoCall]
  /\ approvals = 0
  /\ applies = [o \in Objs |-> 0]
  /\ end_time_writes = [o \in Objs |-> 0]
  /\ call = [pc |-> "none"]

\* create_incident(incident) with a newly constructed incident
StoreCreate(o, id, stage, metrics) ==
  /\ call.pc = "none"
  /\ incidents[o] = None
  /\ incidents' = [incidents EXCEPT ![o] = StoreIncident(id, stage, metrics)]
  /\ store' = create_incident(store, id, o)
  /\ UNCHANGED <<now, config, run, appr, approvals, applies, end_time_writes, call>>

\* update_incident(incident_id, incident) with an existing incident, at a
\* new stage
StoreUpdate(o, stage) ==
  /\ call.pc = "none"
  /\ incidents[o] # None
  /\ incidents' = [incidents EXCEPT ![o].stage = stage]
  /\ store' = update_incident(store, incidents[o].id, o)
  /\ UNCHANGED <<now, config, run, appr, approvals, applies, end_time_writes, call>>

GetStatistics ==
  /\ call.pc = "none"
  /\ call' = [pc |-> "returned", result |-> get_statistics(store, incidents)]
  /\ UNCHANGED <<now, config, incidents, store, run, appr, approvals, applies,
                 end_time_writes>>

NextStore ==
  \/ \E o \in StoreObjs, id \in StoreIds, stage \in StoreStages, m \in StoreMetrics :
       StoreCreate(o, id, stage, m)
  \/ \E o \in StoreObjs, stage \in StoreStages : StoreUpdate(o, stage)
  \/ GetStatistics

SpecStore == InitStore /\ [][NextStore]_vars

\* ------------------------------------------------ two incidents at once
\* Two incidents of the same scenario, o1 on the production-named service
\* and generated first, o2 on the other service and generated in the same
\* second or the next; their runs and one approval request of each caller
\* interleave at the awaits.  Once both exist the clock moves with the sleep
\* of a run only.
PairObjs == {"o1", "o2"}

InitPair ==
  /\ now = 0
  /\ config = _default_config
  /\ incidents = [o \in PairObjs |-> None]
  /\ store = EmptyDict
  /\ run = [o \in PairObjs |-> NoRun]
  /\ appr = [c \in Callers |-> NoCall]
  /\ approvals = 0
  /\ applies = [o \in PairObjs |-> 0]
  /\ end_time_writes = [o \in PairObjs |-> 0]
  /\ call = NoCheck

NextPair ==
  \/ (incidents["o1"] # None /\ incidents["o2"] = None
      /\ now = incidents["o1"].id) /\ Tick
  \/ \E o \in PairObjs, sn \in ServiceNames :
        /\ (o = "o2" => incidents["o1"] # None)
        /\ is_production(sn) <=> o = "o1"
        /\ Simulate(o, scenario_resource_saturation, sn, FALSE)
  \/ \E o \in PairObjs : RunStart(o)
  \/ \E o \in PairObjs, logs \in LogSamples : ScoutReturn(o, {}, logs)
  \/ \E o \in PairObjs, cf \in TriageConfidences :
        TriageReturn(o, "resource_saturation", cf)
  \/ \E o \in PairObjs, h \in HypothesisLists : Len(h) = 1 /\ HypothesisReturn(o, h)
  \/ \E o \in PairObjs : ExperimentReturn(o)
  \/ \E o \in PairObjs : ExecutorReturn(o)
  \/ \E o \in PairObjs : ApplyReturn(o)
  \/ \E o \in PairObjs : PostcheckReturn(o)
  \/ \E o \in PairObjs : RunRaise(o)
  \/ \E c \in Callers, id \in DOMAIN store : appr[c] = NoCall /\ ApproveStart(c, id)
  \/ \E c \in Callers : ApproveApplyReturn(c)
  \/ \E c \in Callers : ApprovePostcheckReturn(c)
  \/ \E c \in Callers : ApproveRaise(c)

SpecPair == InitPair /\ [][NextPair]_vars

\* ------------------------------------------------------------- properties
Created(o) == run[o].pc # "none"

Terminal == {"completed", "failed"}

Paused(inc) ==
  /\ inc.stage = "executor"
  /\ inc.proposed_mitigation # None
  /\ inc.applied_mitigation = None

Applied(c) ==
  /\ appr[c].pc = "done"
  /\ appr[c].status \in {"applied", "applied_but_not_recovered"}

\* C1: a run without auto-approval, in which nothing raised, whose proposal
\* passed the guardrail and requires approval has returned at the pause point: stage executor, the
\* proposal set, nothing applied, not approved.
C1_PausePoint ==
  \A o \in Objs :
    (/\ run[o].pc = "done"
     /\ run[o].error = "none"
     /\ run[o].status = "proposed"
     /\ ~run[o].auto_approve
     /\ incidents[o].proposed_mitigation.requires_approval)
    => /\ incidents[o].stage = "executor"
       /\ incidents[o].proposed_mitigation # None
       /\ incidents[o].applied_mitigation = None
       /\ ~incidents[o].mitigation_approved

\* C2: a run whose proposal the guardrail rejected has returned with the
\* incident at stage executor, not failed, nothing applied.
C2_GuardrailRejection ==
  \A o \in Objs :
    (run[o].pc = "done" /\ run[o].status = "blocked")
    => /\ incidents[o].stage = "executor"
       /\ incidents[o].applied_mitigation = None

\* C3: a run that has gone through postcheck has ended at completed if and
\* only if the metrics recovered, and at failed otherwise; likewise an
\* approval that has gone through postcheck.
C3_VerdictDecidesStage ==
  /\ \A o \in Objs :
       (run[o].pc = "done" /\ run[o].error = "none")
       => /\ incidents[o].stage = "completed" <=> incidents[o].metrics_recovered
          /\ incidents[o].stage = "failed" <=> ~incidents[o].metrics_recovered
  /\ \A c \in Callers :
       Applied(c)
       => LET inc == incidents[appr[c].obj]
          IN /\ inc.stage = "completed" <=> inc.metrics_recovered
             /\ inc.stage = "failed" <=> ~inc.metrics_recovered

\* C4: once the stage of an incident is completed or failed, no step changes
\* its stage, its applied mitigation, its flags or its timeline.
C4_TerminalAbsorbing ==
  [][\A o \in Objs :
       (Created(o) /\ incidents[o].stage \in Terminal)
       => /\ incidents'[o].stage = incidents[o].stage
          /\ incidents'[o].applied_mitigation = incidents[o].applied_mitigation
          /\ incidents'[o].mitigation_approved = incidents[o].mitigation_approved
          /\ incidents'[o].metrics_recovered = incidents[o].metrics_recovered
          /\ incidents'[o].timeline = incidents[o].timeline]_vars

\* C5: when a collaborator raises during a run, the run ends with the
\* incident at stage failed, exactly one timeline entry carrying the error is
\* appended after the entries that were there, the outputs produced so far
\* are kept, and the incident is in the store.
C5_CollaboratorFailure ==
  [][\A o \in Objs :
       (run[o].pc \in RunAwaits /\ run'[o].pc = "done" /\ run'[o].error # "none")
       => LET a == incidents[o]
              b == incidents'[o]
          IN /\ b.stage = "failed"
             /\ b.timeline = Append(a.timeline,
                                    Event("failed", "Pipeline failed", << run'[o].error >>))
             /\ b.evidence = a.evidence
             /\ b.incident_type = a.incident_type
             /\ b.hypotheses = a.hypotheses
             /\ b.experiments = a.experiments
             /\ b.proposed_mitigation = a.proposed_mitigation
             /\ b.applied_mitigation = a.applied_mitigation
             /\ b.metrics = a.metrics
             /\ get_incident(store', b.id) = o]_vars

\* C5, its case: a run has failed at the apply, after five stages had left
\* their outputs and timeline entries
C5_Witness ==
  \E o \in Objs :
    /\ run[o].pc = "done"
    /\ run[o].error = "apply"
    /\ incidents[o].stage = "failed"
    /\ incidents[o].proposed_mitigation # None
    /\ Len(incidents[o].timeline) >= 7

\* C6: when no call is under way on an incident whose run has returned, the
\* incident is at a terminal stage or paused; it is never left at scout,
\* triage, hypothesis, experiment or postcheck.
C6_NoStuckIncident ==
  \A o \in Objs :
    (/\ run[o].pc = "done"
     /\ \A c \in Callers : appr[c].pc \notin ApproveAwaits)
    => \/ incidents[o].stage \in Terminal
       \/ Paused(incidents[o])

\* C7: an approval request for an incident whose mitigation is already
\* applied returns "already_applied" and changes neither the incidents, nor
\* the store, nor the number of apply calls.
C7_DoubleApprovalIdempotent ==
  [][\A c \in Callers :
       (/\ appr[c].pc \notin ApproveAwaits
        /\ appr'[c] # appr[c]
        /\ appr'[c].obj # NoObj
        /\ incidents[appr'[c].obj].applied_mitigation # None)
       => /\ appr'[c].pc = "done"
          /\ appr'[c].status = "already_applied"
          /\ incidents' = incidents
          /\ store' = store
          /\ applies' = applies]_vars

\* C7, its case: a request has found applied the mitigation that an earlier
\* approval request had applied and seen through postcheck
C7_Witness ==
  \E c \in Callers :
    /\ appr[c].pc = "done"
    /\ appr[c].status = "already_applied"
    /\ approvals = 1
    /\ applies[appr[c].obj] = 2
    /\ \E i \in 1..Len(incidents[appr[c].obj].timeline) :
          incidents[appr[c].obj].timeline[i].message
             \in {"Incident completed after human approval",
                  "Incident failed after human approval"}

\* C8: an approval request accepted for a paused incident marks it approved;
\* when the apply has returned the applied mitigation is the proposed one and
\* the stage is postcheck; when the request returns the stage is completed or
\* failed.
C8_FirstApprovalCompletes ==
  [][\A c \in Callers :
       /\ (/\ appr[c].pc \notin ApproveAwaits
           /\ appr'[c].pc = "apply"
           /\ appr'[c].seen = "executor")
          => incidents'[appr'[c].obj].mitigation_approved
       /\ (/\ appr[c].pc = "apply"
           /\ appr'[c].pc = "postcheck"
           /\ appr[c].seen = "executor")
          => LET b == incidents'[appr[c].obj]
             IN /\ b.stage = "postcheck"
                /\ b.mitigation_approved
                /\ b.applied_mitigation = b.proposed_mitigation
       /\ (/\ appr[c].pc = "postcheck"
           /\ appr'[c].pc = "done"
           /\ appr'[c].status # "raised"
           /\ appr[c].seen = "executor")
          => LET b == incidents'[appr[c].obj]
             IN /\ b.stage \in Terminal
                /\ b.mitigation_approved
                /\ b.applied_mitigation # None
                /\ b.applied_mitigation = b.proposed_mitigation]_vars

\* C8, its case: an approval request that found the incident paused has
\* returned after applying
C8_Witness ==
  \E c \in Callers :
    /\ Applied(c)
    /\ appr[c].seen = "executor"
    /\ incidents[appr[c].obj].stage \in Terminal
    /\ incidents[appr[c].obj].applied_mitigation # None

\* C9: the verdict an approval reaches is the verdict of the recovery check
\* on the baseline of the incident and the post-mitigation metrics, as the
\* run computes it.
C9_ResumeVerdictEqualsRunVerdict ==
  \A c \in Callers :
    Applied(c)
    => LET o == appr[c].obj
       IN incidents[o].metrics_recovered
            = _check_recovery(run[o].baseline_metrics,
                              _simulate_recovery(run[o].current_metrics)).recovered

\* C10: after an approval has applied the mitigation, the time to mitigation
\* is the time of the apply minus the time the pipeline run started.
C10_TimeToMitigationFromPipelineStart ==
  \A c \in Callers :
    Applied(c)
    => LET o == appr[c].obj
       IN incidents[o].metrics.time_to_mitigation_seconds
            = appr[c].applied_at - run[o].context.detection_start


\* C11: end_time is unset while the stage is not completed or failed, and is
\* assigned at most once over the executions on an incident.
C11_EndTimeWrittenOnce ==
  \A o \in Objs :
    Created(o)
    => /\ incidents[o].stage \notin Terminal => incidents[o].end_time = NoTime
       /\ end_time_writes[o] <= 1

IsPrefix(s, t) == Len(s) <= Len(t) /\ SubSeq(t, 1, Len(s)) = s

\* C12: every step leaves the timeline of an incident a prefix of its
\* timeline after the step.
C12_TimelineAppendOnly ==
  [][\A o \in Objs :
       Created(o) => IsPrefix(incidents[o].timeline, incidents'[o].timeline)]_vars

\* C12, its case: an approval has added its entries after those of a run
\* that had failed
C12_Witness ==
  \E c \in Callers :
    /\ Applied(c)
    /\ LET tl == incidents[appr[c].obj].timeline
       IN /\ Len(tl) >= 10
          /\ tl[1].stage = "detection"
          /\ \E i \in 1..Len(tl) : tl[i].stage = "failed" /\ i < Len(tl)
          /\ \E i \in 1..Len(tl) : tl[i].stage = "approval"

\* the stages a run has entered when it ends with the error err
StagesEntered(err) ==
  CASE err = "scout" -> 1
    [] err = "triage" -> 2
    [] err = "hypothesis" -> 3
    [] err = "experiment" -> 4
    [] err \in {"executor", "apply"} -> 5
    [] err = "postcheck" -> 6

\* the events of a finished run: its stage transitions (the terminal one
\* included), the guardrail block, the apply
RunEvents(o) ==
  LET r == run[o]
  IN IF r.error = "none"
     THEN 7 + 1
     ELSE StagesEntered(r.error) + 1
          + (IF r.status = "blocked" THEN 1 ELSE 0)
          + (IF r.status = "proposed" /\ r.error = "postcheck" THEN 1 ELSE 0)

\* C13: the number of timeline entries a run has added (the detection entry
\* was there before it) is the number of its stage transitions and of its
\* guardrail-block and apply events.
C13_OneEntryPerEvent ==
  \A o \in Objs :
    (run[o].pc = "done" /\ approvals = 0)
    => Len(incidents[o].timeline) - 1 = RunEvents(o)


\* the stage that follows each stage of a run
NextStage(stage) ==
  CASE stage = "detection" -> "scout"
    [] stage = "scout" -> "triage"
    [] stage = "triage" -> "hypothesis"
    [] stage = "hypothesis" -> "experiment"
    [] stage = "experiment" -> "executor"
    [] stage = "executor" -> "postcheck"
    [] stage = "postcheck" -> "completed"
    [] OTHER -> "none"

\* C14: every step taken while a run is under way leaves the stage where it
\* is, moves it to the next stage in the order scout, triage, hypothesis,
\* experiment, executor, postcheck, completed, or, when a collaborator has
\* raised, to failed; a run that ends without an error ends at completed.
C14_StageOrder ==
  [][\A o \in Objs :
       (run[o].pc \in RunAwaits \cup {"pending"})
       => LET a == incidents[o].stage
              b == incidents'[o].stage
          IN /\ \/ b = a
                \/ b = NextStage(a)
                \/ b = "failed" /\ run'[o].error # "none"
             /\ (run'[o].pc = "done" /\ run'[o].error = "none")
                => a = "postcheck" /\ b = "completed"]_vars

\* C14, its case: a run has gone through all its stages
C14_Witness ==
  \E o \in Objs :
    /\ run[o].pc = "done"
    /\ run[o].error = "none"
    /\ run[o].status = "proposed"
    /\ incidents[o].stage = "completed"
    /\ Len(incidents[o].timeline) >= 8

\* C15: between two stages of a run, the store returns the incident of the
\* run for its id.
C15_PersistedAfterEveryStage ==
  \A o \in Objs :
    run[o].pc \in (RunAwaits \ {"scout"})
    => get_incident(store, incidents[o].id) = o


\* C16: when the apply of a run returns and the run is auto-approved or its
\* proposal requires no approval, the applied mitigation is the proposed one,
\* the incident is approved, the time to mitigation is the time since the
\* run started, and the stage is postcheck.
C16_AutoApplyPath ==
  [][\A o \in Objs :
       (/\ run[o].pc = "apply"
        /\ run'[o].pc = "postcheck"
        /\ \/ run[o].auto_approve
           \/ ~incidents[o].proposed_mitigation.requires_approval)
       => LET b == incidents'[o]
          IN /\ b.applied_mitigation = incidents[o].proposed_mitigation
             /\ b.applied_mitigation # None
             /\ b.mitigation_approved
             /\ b.metrics.time_to_mitigation_seconds
                  = now - run[o].context.detection_start
             /\ b.stage = "postcheck"]_vars

\* C16, its case: an auto-approved run has applied a mitigation that requires
\* approval, some time after it started
C16_Witness ==
  \E o \in Objs :
    /\ run[o].pc = "postcheck"
    /\ run[o].auto_approve
    /\ run[o].status = "proposed"
    /\ incidents[o].applied_mitigation # None
    /\ incidents[o].applied_mitigation.requires_approval
    /\ incidents[o].metrics.time_to_mitigation_seconds > 0

\* C17: an incident whose proposal the guardrail rejected carries the
\* rejected mitigation as its proposed mitigation and the reason in a
\* timeline entry.
C17_BlockedKeepsEvidence ==
  \A o \in Objs :
    run[o].status = "blocked"
    => /\ incidents[o].proposed_mitigation # None
       /\ \E i \in 1..Len(incidents[o].timeline) :
             incidents[o].timeline[i].message = "Mitigation blocked by guardrails"


\* C18: a call of check_mitigation on a mitigation that is not reversible
\* returns passed = false with the policy reversibility_required, whatever
\* the severity, the service, the configuration and the replica target.
C18_IrreversibleBlocked ==
  (call.pc = "returned" /\ ~call.mitigation.reversible)
  => /\ ~call.result.check.passed
     /\ call.result.check.policy_violated = "reversibility_required"

\* C18, its case: an irreversible scale-up above the replica limit has been
\* rejected for its irreversibility
C18_Witness ==
  /\ call.pc = "returned"
  /\ ~call.mitigation.reversible
  /\ call.mitigation.type = "scale_up"
  /\ Get(call.mitigation.parameters, "target_replicas", 0) > config.max_scale_replicas
  /\ call.result.check.policy_violated = "reversibility_required"

C20_ScaleLimit ==
  (/\ call.pc = "returned"
   /\ call.mitigation.reversible
   /\ call.mitigation.type = "scale_up")
  => LET target_replicas == Get(call.mitigation.parameters, "target_replicas", 0)
     IN IF target_replicas > config.max_scale_replicas
        THEN /\ ~call.result.check.passed
             /\ call.result.check.policy_violated = "max_scale_replicas"
        ELSE call.result.check.passed

\* C20, its case: a reversible scale-up to exactly the limit has passed
C20_Witness ==
  /\ call.pc = "returned"
  /\ call.mitigation.reversible
  /\ call.mitigation.type = "scale_up"
  /\ Get(call.mitigation.parameters, "target_replicas", 0) = config.max_scale_replicas
  /\ call.result.check.passed


\* the service name of the call has "prod" in it, in any letter case
ProdNamed == Contains(LowerStr(call.service_name), <<"p","r","o","d">>)

\* C21, as stated: a call of check_mitigation that passes for a service whose
\* name has "prod" in it leaves the mitigation requiring approval.
C21_ProductionForcesApproval ==
  (call.pc = "returned" /\ call.result.check.passed /\ ProdNamed)
  => call.result.mitigation.requires_approval

\* C21, amended: on an engine whose configuration has
\* production_requires_approval set, a call of check_mitigation that passes
\* for a service whose name has "prod" in it leaves the mitigation requiring
\* approval.
C21_ProductionForcesApprovalWhenConfigured ==
  (/\ call.pc = "returned"
   /\ call.result.check.passed
   /\ ProdNamed
   /\ config.production_requires_approval)
  => call.result.mitigation.requires_approval

\* C21, its case: a call for a service named in capitals has set
\* requires_approval on a mitigation of a type that does not itself require it
C21_Witness ==
  /\ call.pc = "returned"
  /\ call.result.check.passed
  /\ ProdNamed
  /\ ~Contains(call.service_name, <<"p","r","o","d">>)
  /\ config.production_requires_approval
  /\ call.mitigation.type \notin config.require_approval_for
  /\ ~call.mitigation.requires_approval
  /\ call.result.mitigation.requires_approval

\* C22: whenever the type of the mitigation is in the approval-required set
\* while auto-mitigation is not allowed, or the service is a production one
\* (and the configuration asks approval for production), the mitigation
\* requires approval after the call, whether the call has passed or not.
C22_ApprovalMutationRegardlessOfResult ==
  (/\ call.pc = "returned"
   /\ \/ /\ call.mitigation.type \in config.require_approval_for
         /\ ~config.allow_auto_mitigation
      \/ ProdNamed /\ config.production_requires_approval)
  => call.result.mitigation.requires_approval


\* C23: the target computed for a replica count of at least one is at least
\* one above the count and at most the smaller of max_scale_replicas and the
\* count times max_scale_factor.
C23_ScaleTargetBounds ==
  (call.pc = "returned" /\ call.current_replicas >= 1)
  => /\ call.current_replicas + 1 <= call.result
     /\ call.result <= Min(config.max_scale_replicas,
                           call.current_replicas * config.max_scale_factor)

\* the values of a signal that are above the value v
Raised(signal, v) == { m[signal] : m \in ScaleMetrics } \cap { w \in 0..4000 : w > v }

\* C24: the target computed with any one of the signals raised, everything
\* else the same, is at least the target computed.
C24_ScaleTargetMonotone ==
  call.pc = "returned"
  => \A signal \in DOMAIN call.metrics :
       \A w \in Raised(signal, call.metrics[signal]) :
         _compute_scale_target(config, [call.metrics EXCEPT ![signal] = w],
                               call.current_replicas, call.default_bump)
           >= call.result

\* C24, its case: a target computed under severe queue pressure and a low
\* error rate, which a raised error rate must not lower
C24_Witness ==
  /\ call.pc = "returned"
  /\ call.metrics.queue_depth > 2000
  /\ call.metrics.error_rate <= 500
  /\ call.result = call.current_replicas + 3


\* the deploy history of the call
CallDeploys == IF call.evidence = None THEN << >> ELSE call.evidence.recent_deploys

\* the trigger of the deployment-regression rule (line 113)
DeployTrigger ==
  \/ call.root_cause \cap {"deploy", "deployment", "rollout", "release"} # {}
  \/ (call.rb_text \cap {"rollback", "roll back"} # {} /\ Len(CallDeploys) > 0)

\* the second-most-recent deploy exists and has a version
PreviousResolvable ==
  Len(CallDeploys) > 1 /\ "version" \in DOMAIN CallDeploys[2]

\* the rule-5 default for the call: scale_up with base bump 1
IsDefaultMitigation(m) ==
  /\ m.type = "scale_up"
  /\ m.risk_level = "low"
  /\ m.parameters.signal = "conservative_default"
  /\ m.parameters.target_replicas =
       _compute_scale_target(config,
         IF call.evidence = None THEN EmptyDict ELSE call.evidence.metrics,
         Get(call.service_state, "replicas", 3), 1)

\* C25: a proposed rollback carries the version of the second-most-recent
\* deploy as its target version, which is not null; with fewer than two
\* deploys no rollback is proposed.
C25_NoUnverifiableRollback ==
  (call.pc = "returned" /\ call.result.type = "rollback")
  => /\ Len(CallDeploys) > 1
     /\ "version" \in DOMAIN CallDeploys[2]
     /\ call.result.parameters.target_version = CallDeploys[2].version
     /\ call.result.parameters.target_version # "null"

\* C25, its case: a rollback proposed from a history of two deploys
C25_Witness ==
  /\ call.pc = "returned"
  /\ call.result.type = "rollback"
  /\ Len(CallDeploys) = 2
  /\ call.result.parameters.target_version = "v1.2.2"

\* C26: when the deployment-regression rule is triggered and no previous
\* version is resolvable, the result is the rule-5 default mitigation.
C26_UnresolvableRollbackIsDefault ==
  (call.pc = "returned" /\ DeployTrigger /\ ~PreviousResolvable)
  => IsDefaultMitigation(call.result)


\* the triggers of rules 2 to 4 (lines 138, 155, 173)
ScaleTrigger ==
  \/ call.incident_type = "resource_saturation"
  \/ call.root_cause \cap {"resource", "memory"} # {}
  \/ call.rb_text \cap {"scale", "replica", "autoscal"} # {}

DisableTrigger ==
  \/ call.root_cause \cap {"dependency", "downstream"} # {}
  \/ call.rb_text \cap {"feature flag", "disable", "degrade"} # {}

RestartTrigger == call.incident_type = "error_rate_increase"

\* the rule that builds the mitigation m: the types tell the rules apart,
\* and the signal tells the scale-up of rule 2 from the default
RuleOf(m) ==
  IF m.type = "rollback" /\ m.risk_level = "medium" THEN 1
  ELSE IF m.type = "scale_up" /\ m.parameters.signal # "conservative_default" THEN 2
  ELSE IF m.type = "feature_flag_disable" THEN 3
  ELSE IF m.type = "restart_service" THEN 4
  ELSE 5

\* the first of the rules 1 to 4 of which the trigger holds, 5 if none
FirstTriggered(t1, t2, t3, t4) ==
  LET held == {i \in 1..4 : <<t1, t2, t3, t4>>[i]} \cup {5}
  IN CHOOSE i \in held : \A j \in held : i <= j

Passes(k) ==
  CASE k = "latency_p99" ->
         10 * call.current[k] <= 12 * (IF k \in DOMAIN call.baseline
                                       THEN call.baseline[k] ELSE 200)
    [] k = "error_rate" ->
         call.current[k] <= 2 * (IF k \in DOMAIN call.baseline
                                 THEN call.baseline[k] ELSE 10)
    [] k \in {"cpu_usage", "memory_usage"} -> call.current[k] < 80

\* the metrics of the current dictionary of the call that are checked
Checked ==
  DOMAIN call.current \cap {"latency_p99", "error_rate", "cpu_usage", "memory_usage"}

\* C28: the verdict is the conjunction of the checks of exactly the metrics
\* present in current: latency_p99 within 1.2 times its baseline, error_rate
\* within twice its baseline, cpu_usage and memory_usage below 80; an empty
\* current is recovered.
C28_RecoveryVerdict ==
  call.pc = "returned"
  => /\ DOMAIN call.result.checks = Checked
     /\ \A k \in Checked : call.result.checks[k] = Passes(k)
     /\ call.result.recovered = (\A k \in Checked : Passes(k))
     /\ (call.current = EmptyDict => call.result.recovered)

\* C28, its case: a current with the latency at 1.2 times its baseline and a
\* cpu usage of 80, no error rate: the latency passes, the verdict is false
C28_Witness ==
  /\ call.pc = "returned"
  /\ call.baseline = baseline_latency_spike
  /\ DOMAIN call.current = {"latency_p99", "cpu_usage"}
  /\ call.current.latency_p99 = 600
  /\ call.current.cpu_usage = 80
  /\ call.result.checks.latency_p99
  /\ ~call.result.recovered

\* the experiment stage of the run of o has completed
ExperimentDone(o) ==
  /\ incidents[o] # None
  /\ \E i \in 1..Len(incidents[o].timeline) :
       incidents[o].timeline[i].stage = "experiment"

\* C30: once the experiment stage has completed, the incident has one
\* experiment result per hypothesis, and the i-th result, counting from
\* zero, has hypothesis_id i.
C30_ExperimentsAlignWithHypotheses ==
  \A o \in Objs :
    ExperimentDone(o)
    => /\ Len(incidents[o].experiments) = Len(incidents[o].hypotheses)
       /\ \A i \in 1..Len(incidents[o].experiments) :
            incidents[o].experiments[i].hypothesis_id = i - 1

\* C30, its case: a run past the experiment stage with two hypotheses
C30_Witness ==
  \E o \in Objs :
    /\ ExperimentDone(o)
    /\ Len(incidents[o].hypotheses) = 2
    /\ incidents[o].experiments[2].hypothesis_id = 1


\* the metrics of the incident stored under id if it is completed
CompletedMetrics(id) ==
  IF id \in DOMAIN store /\ incidents[store[id]].stage = "completed"
  THEN incidents[store[id]].metrics ELSE None

\* the number of completed incidents in the store, and a total over them
CompletedCount ==
  (IF CompletedMetrics(1) # None THEN 1 ELSE 0)
  + (IF CompletedMetrics(2) # None THEN 1 ELSE 0)
  + (IF CompletedMetrics(3) # None THEN 1 ELSE 0)

CompletedTotal(Field(_)) ==
  (IF CompletedMetrics(1) # None THEN Field(CompletedMetrics(1)) ELSE 0)
  + (IF CompletedMetrics(2) # None THEN Field(CompletedMetrics(2)) ELSE 0)
  + (IF CompletedMetrics(3) # None THEN Field(CompletedMetrics(3)) ELSE 0)

\* C31: the statistics returned are the averages and the success rate over
\* the incidents at stage completed only, and all zero when no incident is
\* completed.
C31_StatisticsOverCompleted ==
  call.pc = "returned"
  => LET r == call.result
         LatencyOf(m) == m.detection_latency_seconds
         TimeToMitigationOf(m) == m.time_to_mitigation_seconds
         SuccessOf(m) == IF m.mitigation_success THEN 1 ELSE 0
         TriageOf(m) == m.triage_accuracy
     IN /\ r.completed = CompletedCount
        /\ CompletedCount = 0
             => /\ r.avg_detection_latency.num = 0
                /\ r.avg_time_to_mitigation.num = 0
                /\ r.success_rate.num = 0
                /\ r.triage_accuracy.num = 0
        /\ CompletedCount > 0
             => /\ r.avg_detection_latency = Ratio(CompletedTotal(LatencyOf), CompletedCount)
                /\ r.avg_time_to_mitigation = Ratio(CompletedTotal(TimeToMitigationOf), CompletedCount)
                /\ r.success_rate = Ratio(100 * CompletedTotal(SuccessOf), CompletedCount)
                /\ r.triage_accuracy = Ratio(100 * CompletedTotal(TriageOf), CompletedCount)
        /\ \A f \in {"avg_detection_latency", "avg_time_to_mitigation",
                     "success_rate", "triage_accuracy"} : r[f].den # 0

\* C31, its case: statistics over a store with a completed, a failed and an
\* in-flight incident
C31_Witness ==
  /\ call.pc = "returned"
  /\ call.result.completed = 1
  /\ call.result.total_incidents = 3
  /\ \E a, b \in DOMAIN store :
       /\ incidents[store[a]].stage = "failed"
       /\ incidents[store[b]].stage = "executor"


\* the incident stored under id
Stored(st, incs, id) == IF id \in DOMAIN st THEN incs[st[id]] ELSE None

\* C32: a step of the run of an incident, or of an approval request for it,
\* changes neither another incident nor, when the ids differ, what is stored
\* under the id of another incident.
C32_NoInterference ==
  [][LET actors == {o \in PairObjs : run'[o] # run[o]}
                   \cup {appr'[c].obj : c \in {d \in Callers : appr'[d] # appr[d]}}
     IN \A o \in PairObjs \ actors :
          /\ incidents'[o] = incidents[o]
          /\ applies'[o] = applies[o]
          /\ (/\ incidents[o] # None
              /\ \A a \in actors \cap PairObjs :
                   incidents'[a] # None => incidents'[a].id # incidents[o].id)
             => Stored(store', incidents', incidents[o].id)
                  = Stored(store, incidents, incidents[o].id)]_vars

\* C32, its case: two incidents with distinct ids, the first completed by an
\* approval request accepted while the run of the second was under way, the
\* second completed by its run
C32_Witness ==
  /\ incidents["o1"] # None /\ incidents["o2"] # None
  /\ incidents["o1"].id # incidents["o2"].id
  /\ incidents["o1"].stage = "completed" /\ incidents["o1"].mitigation_approved
  /\ incidents["o2"].stage = "completed"
  /\ \E c \in Callers :
       /\ Applied(c) /\ appr[c].obj = "o1"
       /\ appr[c].approved_at_ts > incidents["o2"].id


\* a run of o on the resource_saturation scenario (cpu 92, memory 89, three
\* replicas), classified resource_saturation, on a service that is not
\* production, under the default limits, has returned and nothing raised
ScenarioA(o) ==
  /\ run[o].pc = "done" /\ run[o].error = "none"
  /\ run[o].current_metrics = scenario_resource_saturation.current
  /\ run[o].baseline_metrics = scenario_resource_saturation.baseline
  /\ incidents[o].incident_type = "resource_saturation"
  /\ ~is_production(incidents[o].service_name)
  /\ config = _default_config

\* C33: scenario A ends with a scale_up to 6 replicas proposed, passed by the
\* guardrail without approval, the simulated post-mitigation metrics judged
\* recovered, and the stage completed.
C33_ScenarioA ==
  \A o \in Objs :
    ScenarioA(o)
    => /\ incidents[o].proposed_mitigation # None
       /\ incidents[o].proposed_mitigation.type = "scale_up"
       /\ incidents[o].proposed_mitigation.parameters.target_replicas = 6
       /\ ~incidents[o].proposed_mitigation.requires_approval
       /\ incidents[o].applied_mitigation = incidents[o].proposed_mitigation
       /\ incidents[o].metrics_recovered
       /\ incidents[o].stage = "completed"


\* the timeline entries of inc that record an applied mitigation
AppliedEntries(inc) ==
  {i \in 1..Len(inc.timeline) :
     /\ inc.timeline[i].stage = "executor"
     /\ inc.timeline[i].message \in {"Mitigation applied successfully",
                                      "Mitigation applied after human approval"}}

\* C34: whatever the interleaving at the awaits of a run and of approval
\* requests on the same incident, apply_mitigation is called at most once
\* for it and its timeline has at most one entry of an applied mitigation.
C34_AtMostOneApply ==
  \A o \in Objs :
    /\ applies[o] <= 1
    /\ incidents[o] # None => Cardinality(AppliedEntries(incidents[o])) <= 1


\* C35: an incident with an applied mitigation has that same mitigation as
\* its proposal, is approved, and the mitigation passes the guardrail check;
\* a run whose proposal the guardrail rejected has applied nothing.
C35_MitigationRecordConsistent ==
  \A o \in Objs :
    incidents[o] # None
    => /\ incidents[o].applied_mitigation # None
          => /\ incidents[o].proposed_mitigation = incidents[o].applied_mitigation
             /\ incidents[o].mitigation_approved
             /\ check_mitigation(config, incidents[o].applied_mitigation,
                                 incidents[o].severity,
                                 incidents[o].service_name).check.passed
             /\ run[o].status # "blocked"
       /\ run[o].status = "blocked"
          => /\ incidents[o].applied_mitigation = None
             /\ applies[o] = 0

\* C35, its case: a mitigation applied by an approval request
C35_Witness ==
  \E c \in Callers :
    /\ Applied(c)
    /\ incidents[appr[c].obj].applied_mitigation # None
    /\ incidents[appr[c].obj].applied_mitigation.requires_approval


\* C36: a run that is at one of its awaits eventually returns, with the
\* incident stored under its id; no approval request is needed for that.
C36_RunTerminates ==
  \A o \in Objs :
    (run[o].pc \in RunAwaits)
      ~> /\ run[o].pc = "done"
         /\ get_incident(store, incidents[o].id) = o

\* C36, its case: a run whose proposal requires approval, made without
\* auto-approval, has returned though no approval request was ever made
C36_Witness ==
  \E o \in Objs :
    /\ run[o].pc = "done" /\ run[o].error = "none"
    /\ ~run[o].auto_approve
    /\ incidents[o].proposed_mitigation # None
    /\ incidents[o].proposed_mitigation.requires_approval
    /\ approvals = 0
    /\ \A c \in Callers : appr[c] = NoCall


C38_CheckBoundedEffect ==
  [][ (call.pc = "called" /\ call'.pc = "returned")
      => LET before == call.mitigation
             after == call'.result.mitigation
             second == check_mitigation(config', after, call'.severity,
                                        call'.service_name)
         IN /\ config' = config
            /\ after = [before EXCEPT !.requires_approval = after.requires_approval]
            /\ before.requires_approval => after.requires_approval
            /\ second.check = call'.result.check
            /\ second.mitigation = after ]_vars

\* C38, its case: a check that passed and set requires_approval on a
\* mitigation that came in without it
C38_Witness ==
  /\ call.pc = "returned"
  /\ call.result.check.passed
  /\ ~call.mitigation.requires_approval
  /\ call.result.mitigation.requires_approval


\* C39: every incident that was generated and put in the store by
\* simulate_incident is the one get_incident returns for its id, so that no
\* create_incident has replaced the entry of another incident.
C39_NoSilentOverwrite ==
  \A o \in PairObjs :
    incidents[o] # None => get_incident(store, incidents[o].id) = o


\* C40: an approval request for an id that is not in the store returns 404,
\* and one for a stored incident without a proposed mitigation returns 400;
\* either way the request is over at once and has changed neither the
\* incidents, nor the store, nor the number of apply calls.
C40_IneligibleApprovalRejected ==
  [][\A c \in Callers :
       LET id == appr'[c].incident_id
           unknown == id \notin DOMAIN store
           unproposed == ~unknown /\ incidents[store[id]].proposed_mitigation = None
       IN (/\ appr[c].pc \notin ApproveAwaits
           /\ appr'[c] # appr[c]
           /\ (unknown \/ unproposed))
          => /\ appr'[c].pc = "done"
             /\ appr'[c].status = IF unknown THEN "404" ELSE "400"
             /\ incidents' = incidents
             /\ store' = store
             /\ applies' = applies]_vars

\* C40, its case: a request was refused with 400 for an incident whose run
\* is under way and has proposed nothing yet
C40_Witness ==
  \E c \in Callers :
    /\ appr[c].pc = "done"
    /\ appr[c].status = "400"
    /\ appr[c].obj # NoObj
    /\ run[appr[c].obj].pc \in RunAwaits
    /\ incidents[appr[c].obj].proposed_mitigation = None
    /\ applies[appr[c].obj] = 0

====
